---- MODULE Spec2Model ----
(***************************************************************************)
(* Task scheduling and execution engine of src/base_classes.py:            *)
(* BaseTask (state machine, run(), the timeout guard, cancel/pause/resume) *)
(* and TaskScheduler (priority queues, dispatch loop, worker pool,         *)
(* registries).                                                            *)
(*                                                                         *)
(* Threads are explicit.  A `with lock:` block whose body cannot block is  *)
(* one atomic step guarded by the lock being free; a body that calls       *)
(* something that takes a lock keeps the lock across steps.  threading.Lock *)
(* is not reentrant: a thread that asks for a lock it already owns waits   *)
(* like any other thread.                                                  *)
(***************************************************************************)
EXTENDS Integers, Sequences, FiniteSets, TLC

\* ----------------------------------------------------------------- bounds
NTasks == 3
NCallers == 2
MaxWorkers == 1
MaxTimeout == 1
MaxClock == 1
MaxSubmits == 2
MaxCompleted == 1
MaxLoops == 2
MaxCalls == 2
MaxInstances == 2
MaxExecTime == 1

\* ---------------------------------------------------------------- threads
Tasks == 1..NTasks
Callers == 1..NCallers
Workers == (NCallers + 1)..(NCallers + MaxWorkers)
Dispatchers == (NCallers + MaxWorkers + 1)..(NCallers + MaxWorkers + MaxLoops)
Threads == 1..(NCallers + MaxWorkers + MaxLoops)
NoThread == 0
NoTask == 0
NoInstance == 0
OneTask == 1

\* ------------------------------------------------------------- TaskStatus
PENDING == "pending"
RUNNING == "running"
COMPLETED == "completed"
FAILED == "failed"
TIMEOUT == "timeout"
CANCELLED == "cancelled"
PAUSED == "paused"
TaskStatus == {PENDING, RUNNING, COMPLETED, FAILED, TIMEOUT, CANCELLED, PAUSED}
Terminal == {COMPLETED, FAILED, TIMEOUT, CANCELLED}

\* ----------------------------------------------------------- TaskPriority
LOW == 1
NORMAL == 2
HIGH == 3
CRITICAL == 4
TaskPriority == {LOW, NORMAL, HIGH, CRITICAL}

\* ------------------------------------------------------------- TaskResult
NoTime == -1
EmptyData == "empty"
\* a progress value execute() reports
HalfWay == 50
Payload == "payload"
NoError == "none"
ErrTimeout == "Tiempo de ejecucion excedido"
ErrFailed == "Error en tarea"
ErrDependency == "Dependencia no encontrada"
ErrRun == "run() raised"
NoResult == [status |-> "none", data |-> EmptyData, error |-> NoError,
             progress |-> 0, end_time |-> NoTime]
\* the None wait_for_task returns
Absent == [NoResult EXCEPT !.status = "absent"]

\* --------------------------------------------- float arithmetic (binary64)
\* elapsed_time is a Python float.  A non-negative double is held exactly as
\* a count of units of 2^-56 in four limbs of 15 bits, least significant
\* first; 0.1 is the double 0x1999999999999A * 2^-56.
Limb == 32768
FZero == <<0, 0, 0, 0>>
check_interval == <<6554, 13107, 26214, 204>>

Pow2(k) == IF k = 0 THEN 1 ELSE IF k = 1 THEN 2 ELSE IF k = 2 THEN 4
           ELSE IF k = 3 THEN 8 ELSE IF k = 4 THEN 16 ELSE IF k = 5 THEN 32
           ELSE IF k = 6 THEN 64 ELSE 128

\* limb-wise sum, before rounding
FRawAdd(a, b) ==
    LET s1 == a[1] + b[1]
        s2 == a[2] + b[2] + (s1 \div Limb)
        s3 == a[3] + b[3] + (s2 \div Limb)
        s4 == a[4] + b[4] + (s3 \div Limb)
    IN  <<s1 % Limb, s2 % Limb, s3 % Limb, s4>>

\* the exponent of the unit in the last place of v, in units of 2^-56:
\* 53 significant bits, bit 53 of v is bit 8 of the top limb
FUlpExp(v) ==
    IF v[4] < 256 THEN 0 ELSE IF v[4] < 512 THEN 1 ELSE IF v[4] < 1024 THEN 2
    ELSE IF v[4] < 2048 THEN 3 ELSE IF v[4] < 4096 THEN 4
    ELSE IF v[4] < 8192 THEN 5 ELSE IF v[4] < 16384 THEN 6 ELSE 7

\* round to nearest, ties to even
FRound(v) ==
    LET k == FUlpExp(v)
        ulp == Pow2(k)
        r == v[1] % ulp
        base == <<v[1] - r, v[2], v[3], v[4]>>
        odd == ((v[1] \div ulp) % 2) = 1
        up == (2 * r > ulp) \/ (2 * r = ulp /\ odd)
    IN  IF k = 0 \/ ~up THEN base ELSE FRawAdd(base, <<ulp, 0, 0, 0>>)

FAdd(a, b) == FRound(FRawAdd(a, b))

\* elapsed_time < self.timeout, the timeout an int of seconds (2^56 units)
FLessInt(v, secs) == v[4] < secs * 2048

\* ------------------------------------------------------------------ state
VARIABLES
    \* BaseTask fields
    status, progress, result_data, error, end_time, cancelled, paused, tlock,
    timeout, priority, dependencies,
    \* the guard's locals (one guard per task at most)
    work, elapsed_time, slept, guard_result,
    \* threads: position, the task operated on, the scheduler call running,
    \* the TaskResult run() computed or returned
    pc, job, ctx, ret,
    \* the wall clock read by time.time() and datetime.now()
    now,
    \* TaskScheduler fields
    is_running, slock, tasks, running_tasks, completed_tasks, task_queues,
    total_tasks,
    \* ThreadPoolExecutor: the work queue, the futures, the shutdown flag
    execq, futTask, futState, shutdown,
    \* the future each pool worker is executing
    wfut,
    \* the locals of each dispatch loop thread, and the handles
    \* _cancel_running_tasks has still to visit
    dprio, dtask, ddep, dfut, cancel_todo,
    \* the loop thread started last (the scheduler_thread attribute)
    scheduler_thread,
    \* history: successful add_task calls in order, submissions to the pool
    \* in order, the tasks cancel_task was called on while pending and queued,
    \* the TaskResult returned by the run() that executed each task, whether
    \* a thread made its call on a task after that run() had returned
    submitLog, dispatchLog, cancelledPending, first_result, calledAfter,
    \* the exception the last add_task call of a thread raised
    raised,
    \* the ids remove_task has returned True for since they were last
    \* submitted
    removed,
    \* the invocations of on_complete for each task, and the locks that
    \* invoking threads have held while invoking an observer
    on_complete_calls, callback_locks,
    \* where the work of each task is with respect to the safe point at which
    \* it calls wait_if_paused(): "before" the call, in Event.wait(), "passed"
    safe_point,
    \* GlobalTaskScheduler: the class attributes _instance and _lock, the
    \* TaskScheduler objects constructed so far (the k-th one is instance k),
    \* and what each thread's last access returned
    cls_instance, cls_lock, constructed, got,
    \* TaskScheduler.stats without total_tasks: the three counters and the
    \* average execution time, a fraction <<numerator, denominator>>; and as
    \* history the number of results the workers have recorded and the sum
    \* of the execution times of the COMPLETED ones
    stats, recorded, completed_time

taskVars == <<status, progress, result_data, error, end_time, cancelled,
              paused, tlock, work, elapsed_time, slept, guard_result>>
cfgVars == <<timeout, priority, dependencies>>
regVars == <<cls_instance, cls_lock, constructed, got>>
statVars == <<stats, recorded, completed_time>>
threadVars == <<pc, job, ctx, ret>>
schedVars == <<is_running, slock, tasks, running_tasks, completed_tasks,
               task_queues, total_tasks>>
poolVars == <<execq, futTask, futState, shutdown, wfut>>
loopVars == <<dprio, dtask, ddep, dfut, cancel_todo, scheduler_thread>>
logVars == <<submitLog, dispatchLog, cancelledPending, first_result,
             calledAfter, raised>>
cbVars == <<on_complete_calls, callback_locks>>
histVars == <<logVars, removed, cbVars>>
vars == <<taskVars, cfgVars, safe_point, regVars, statVars, threadVars, now, schedVars, poolVars, loopVars,
          histVars>>

\* time.time() / datetime.now(): the clock has a finite resolution and does
\* not go back; a reading is the value last read or a later one.
ClockReadings == {n \in {now, now + 1} : n <= MaxClock}

\* BaseTask._create_result
create_result(t) ==
    [status |-> status[t], data |-> result_data[t], error |-> error[t],
     progress |-> progress[t], end_time |-> end_time[t]]


\* ------------------------------------------------------- thread plumbing
goto(th, label) == pc' = [pc EXCEPT ![th] = label]

\* the thread leaves the call it is in and is idle again
ThreadIdle(th) ==
    /\ pc' = [pc EXCEPT ![th] = "idle"]
    /\ job' = [job EXCEPT ![th] = NoTask]
    /\ ctx' = [ctx EXCEPT ![th] = "none"]

\* the run() that executed task t returns r
RecordFirst(t, r) ==
    first_result' = IF first_result[t] = NoResult
                    THEN [first_result EXCEPT ![t] = r] ELSE first_result

\* run() returns result r to its caller: a thread that called it directly,
\* or TaskScheduler._execute_task on a pool worker (line 646)
ReturnFromRun(th, r) ==
    /\ ret' = [ret EXCEPT ![th] = r]
    /\ IF ctx[th] = "worker"
       THEN goto(th, "exec_record") /\ UNCHANGED <<job, ctx>>
       ELSE ThreadIdle(th)

\* cancel(), pause() or resume() returns: to a direct caller, to the
\* scheduler method that holds the scheduler's lock around the call
\* (cancel_task 549-552, pause_task, resume_task, remove_task 497-502), or
\* to the loop of _cancel_running_tasks (703-708), which keeps the lock
ReturnFromTaskOp(th) ==
    /\ IF ctx[th] = "stop"
       THEN /\ pc' = [pc EXCEPT ![th] = "stop_cancel_loop"]
            /\ job' = [job EXCEPT ![th] = NoTask]
            /\ UNCHANGED ctx
       ELSE ThreadIdle(th)
    /\ slock' = IF ctx[th] \in {"direct", "stop"} THEN slock ELSE NoThread
    /\ tasks' = IF ctx[th] = "remove_task" THEN tasks \ {job[th]} ELSE tasks
    /\ removed' = IF ctx[th] = "remove_task" THEN removed \cup {job[th]}
                  ELSE removed

\* ------------------------------------------------------------ observers
\* the locks thread th holds: the lock of task t, the scheduler's lock
HeldLocks(th, t) ==
    (IF tlock[t] = th THEN {"task"} ELSE {})
        \cup (IF slock = th THEN {"scheduler"} ELSE {})

\* thread th invokes an observer of task t (on_status_change 253-259,
\* on_complete 194-199, on_progress 313-317); what it raises is caught
Notify(th, t) ==
    callback_locks' = callback_locks \cup
        (IF HeldLocks(th, t) = {} THEN {"none"} ELSE HeldLocks(th, t))

\* ---------------------------------------------------------- BaseTask.run
\* RunStart without the status check of line 143
RunStartUnchecked(th) ==
    LET t == job[th] IN
    /\ pc[th] = "run"
    /\ tlock[t] = NoThread
    /\ status' = [status EXCEPT ![t] = RUNNING]
    /\ progress' = [progress EXCEPT ![t] = 0]
    /\ Notify(th, t)
    /\ goto(th, "run_check_cancelled")
    /\ UNCHANGED <<job, ctx, ret>>
    /\ UNCHANGED <<result_data, error, end_time, cancelled, paused, tlock,
                   work, elapsed_time, slept, guard_result, cfgVars, safe_point, regVars, statVars, now,
                   schedVars, poolVars, loopVars, logVars, removed,
                   on_complete_calls>>

\* lines 142-151: the status check and the move to RUNNING, under the
\* lock, and the notification of the observer after it
RunStart(th) ==
    LET t == job[th] IN
    /\ pc[th] = "run"
    /\ tlock[t] = NoThread
    /\ IF status[t] # PENDING
       THEN /\ ReturnFromRun(th, create_result(t))
            /\ UNCHANGED <<status, progress, callback_locks>>
       ELSE /\ status' = [status EXCEPT ![t] = RUNNING]
            /\ progress' = [progress EXCEPT ![t] = 0]
            /\ Notify(th, t)
            /\ goto(th, "run_check_cancelled")
            /\ UNCHANGED <<job, ctx, ret>>
    /\ UNCHANGED <<result_data, error, end_time, cancelled, paused, tlock,
                   work, elapsed_time, slept, guard_result, cfgVars, safe_point, regVars, statVars, now,
                   schedVars, poolVars, loopVars, logVars, removed,
                   on_complete_calls>>

\* lines 156-162 and 215-219: cancelled before the work starts, or the work
\* thread is started and the guard begins to poll
RunCheckCancelled(th) ==
    LET t == job[th] IN
    /\ pc[th] = "run_check_cancelled"
    /\ IF cancelled[t]
       THEN /\ goto(th, "ss_cancel_pre")
            /\ UNCHANGED <<work, elapsed_time, slept>>
       ELSE /\ work' = [work EXCEPT ![t] = "alive"]
            /\ elapsed_time' = [elapsed_time EXCEPT ![t] = FZero]
            /\ slept' = [slept EXCEPT ![t] = 0]
            /\ goto(th, "run_guard")
    /\ UNCHANGED <<status, progress, result_data, error, end_time, cancelled,
                   paused, tlock, guard_result, cfgVars, safe_point, regVars, statVars, job, ctx, ret, now,
                   schedVars, poolVars, loopVars, histVars>>

\* the loop condition of line 222
GuardWaits(t) == work[t] = "alive" /\ FLessInt(elapsed_time[t], timeout[t])

\* lines 222-242: one evaluation of the polling loop, and what follows it
\* when the loop ends.  Work left alive is abandoned, never joined.
RunGuard(th) ==
    LET t == job[th] IN
    /\ pc[th] = "run_guard"
    /\ IF GuardWaits(t)
       THEN IF cancelled[t]
            THEN /\ guard_result' = [guard_result EXCEPT ![t] = EmptyData]
                 /\ work' = [work EXCEPT ![t] = "abandoned"]
                 /\ goto(th, "run_after")
                 /\ UNCHANGED <<elapsed_time, slept>>
            ELSE /\ elapsed_time' = [elapsed_time EXCEPT
                                       ![t] = FAdd(@, check_interval)]
                 /\ slept' = [slept EXCEPT ![t] = @ + 1]
                 /\ UNCHANGED <<guard_result, work, pc>>
       ELSE /\ UNCHANGED <<elapsed_time, slept>>
            /\ IF work[t] = "alive"
               THEN /\ work' = [work EXCEPT ![t] = "abandoned"]
                    /\ goto(th, "ss_timeout")
                    /\ UNCHANGED guard_result
               ELSE IF work[t] = "raised"
               THEN /\ goto(th, "ss_failed")
                    /\ UNCHANGED <<guard_result, work>>
               ELSE /\ guard_result' = [guard_result EXCEPT ![t] = Payload]
                    /\ goto(th, "run_after")
                    /\ UNCHANGED work
    /\ UNCHANGED <<status, progress, result_data, error, end_time, cancelled,
                   paused, tlock, cfgVars, safe_point, regVars, statVars, job, ctx, ret, now,
                   schedVars, poolVars, loopVars, histVars>>

\* lines 208-213: execute() returns its payload on the work thread
WorkReturns(t) ==
    /\ work[t] = "alive"
    /\ work' = [work EXCEPT ![t] = "returned"]
    /\ UNCHANGED <<status, progress, result_data, error, end_time, cancelled,
                   paused, tlock, elapsed_time, slept, guard_result, cfgVars, safe_point, regVars, statVars,
                   threadVars, now, schedVars, poolVars, loopVars, histVars>>

\* lines 301-317: execute() reports progress from the work thread, which
\* holds no lock when update_progress invokes on_progress
WorkProgress(t) ==
    /\ work[t] = "alive"
    /\ tlock[t] = NoThread
    /\ progress[t] # HalfWay
    /\ progress' = [progress EXCEPT ![t] = HalfWay]
    /\ callback_locks' = callback_locks \cup {"none"}
    /\ UNCHANGED <<status, result_data, error, end_time, cancelled, paused,
                   tlock, work, elapsed_time, slept, guard_result, cfgVars, safe_point, regVars, statVars,
                   threadVars, now, schedVars, poolVars, loopVars, logVars,
                   removed, on_complete_calls>>

\* lines 328-330: the work calls wait_if_paused() at its safe point, which
\* tests the _paused event
WaitIfPaused(t) ==
    /\ work[t] = "alive"
    /\ safe_point[t] = "before"
    /\ safe_point' = [safe_point EXCEPT
                        ![t] = IF paused[t] THEN "wait" ELSE "passed"]
    /\ UNCHANGED <<taskVars, cfgVars, regVars, statVars, threadVars, now, schedVars,
                   poolVars, loopVars, histVars>>

\* line 332: self._paused.wait() returns once the flag of the event is set,
\* and the flag of _paused is set exactly while the task is paused
PausedWaitReturns(t) ==
    /\ work[t] = "alive"
    /\ safe_point[t] = "wait"
    /\ paused[t]
    /\ safe_point' = [safe_point EXCEPT ![t] = "passed"]
    /\ UNCHANGED <<taskVars, cfgVars, regVars, statVars, threadVars, now, schedVars,
                   poolVars, loopVars, histVars>>

\* lines 212-213: execute() raises on the work thread
WorkRaises(t) ==
    /\ work[t] = "alive"
    /\ work' = [work EXCEPT ![t] = "raised"]
    /\ UNCHANGED <<status, progress, result_data, error, end_time, cancelled,
                   paused, tlock, elapsed_time, slept, guard_result, cfgVars, safe_point, regVars, statVars,
                   threadVars, now, schedVars, poolVars, loopVars, histVars>>

\* lines 164-173: after the guard returned a payload: cancelled, or the
\* lock is taken, payload and progress stored and _set_status called with
\* the lock still held
RunAfter(th) ==
    LET t == job[th] IN
    /\ pc[th] = "run_after"
    /\ IF cancelled[t]
       THEN /\ goto(th, "ss_cancel_post")
            /\ UNCHANGED <<tlock, result_data, progress>>
       ELSE /\ tlock[t] = NoThread
            /\ tlock' = [tlock EXCEPT ![t] = th]
            /\ result_data' = [result_data EXCEPT ![t] = guard_result[t]]
            /\ progress' = [progress EXCEPT ![t] = 100]
            /\ goto(th, "ss_completed")
    /\ UNCHANGED <<status, error, end_time, cancelled, paused, work,
                   elapsed_time, slept, guard_result, cfgVars, safe_point, regVars, statVars, job, ctx, ret,
                   now, schedVars, poolVars, loopVars, histVars>>

\* the places _set_status is called from, with the status each passes
SetStatusLabels == {"ss_cancel_pre", "ss_cancel_post", "ss_completed",
                    "ss_timeout", "ss_failed", "ss_from_cancel",
                    "ss_from_pause", "ss_from_resume"}
SetStatusArg(label) ==
    CASE label \in {"ss_cancel_pre", "ss_cancel_post", "ss_from_cancel"}
                                 -> CANCELLED
      [] label = "ss_completed"   -> COMPLETED
      [] label = "ss_timeout"     -> TIMEOUT
      [] label = "ss_failed"      -> FAILED
      [] label = "ss_from_pause"  -> PAUSED
      [] label = "ss_from_resume" -> RUNNING
SetStatusError(label, old) ==
    IF label = "ss_timeout" THEN ErrTimeout
    ELSE IF label = "ss_failed" THEN ErrFailed ELSE old

\* SetStatus with a reentrant lock, which the caller's with-block releases
SetStatusReentrant(th) ==
    LET t == job[th]
        l == pc[th]
        st == [status EXCEPT ![t] = SetStatusArg(l)]
        er == [error EXCEPT ![t] = SetStatusError(l, @)]
    IN
    /\ l \in SetStatusLabels
    /\ tlock[t] \in {NoThread, th}
    /\ tlock' = [tlock EXCEPT ![t] = NoThread]
    /\ status' = st
    /\ error' = er
    /\ Notify(th, t)
    /\ IF l \in {"ss_cancel_pre", "ss_cancel_post"}
       THEN /\ ret' = [ret EXCEPT ![th] =
                         [create_result(t) EXCEPT !.status = st[t]]]
            /\ goto(th, "run_finally_ret")
            /\ UNCHANGED <<job, ctx, slock, tasks, removed>>
       ELSE IF l \in {"ss_completed", "ss_timeout", "ss_failed"}
       THEN /\ goto(th, "run_finally")
            /\ UNCHANGED <<job, ctx, ret, slock, tasks, removed>>
       ELSE /\ ReturnFromTaskOp(th)
            /\ UNCHANGED ret
    /\ UNCHANGED <<progress, result_data, end_time, cancelled, paused,
                   work, elapsed_time, slept, guard_result, cfgVars, safe_point, regVars, statVars, now,
                   is_running, running_tasks, completed_tasks, task_queues,
                   total_tasks, poolVars, loopVars, logVars,
                   on_complete_calls>>

\* lines 244-251: _set_status takes the task's lock, writes and releases.
\* What follows is the caller's code up to its next lock: the early returns
\* of lines 159 and 167 build their TaskResult before the finally clause
\* runs; a caller that held the lock around the call (173, 282, 290, 298)
\* leaves its own with-block.
SetStatus(th) ==
    LET t == job[th]
        l == pc[th]
        st == [status EXCEPT ![t] = SetStatusArg(l)]
        er == [error EXCEPT ![t] = SetStatusError(l, @)]
    IN
    /\ l \in SetStatusLabels
    /\ tlock[t] = NoThread
    /\ status' = st
    /\ error' = er
    /\ Notify(th, t)
    /\ IF l \in {"ss_cancel_pre", "ss_cancel_post"}
       THEN /\ ret' = [ret EXCEPT ![th] =
                         [create_result(t) EXCEPT !.status = st[t]]]
            /\ goto(th, "run_finally_ret")
            /\ UNCHANGED <<job, ctx, slock, tasks, removed>>
       ELSE IF l \in {"ss_completed", "ss_timeout", "ss_failed"}
       THEN /\ goto(th, "run_finally")
            /\ UNCHANGED <<job, ctx, ret, slock, tasks, removed>>
       ELSE /\ ReturnFromTaskOp(th)
            /\ UNCHANGED ret
    /\ UNCHANGED <<progress, result_data, end_time, cancelled, paused, tlock,
                   work, elapsed_time, slept, guard_result, cfgVars, safe_point, regVars, statVars, now,
                   is_running, running_tasks, completed_tasks, task_queues,
                   total_tasks, poolVars, loopVars, logVars,
                   on_complete_calls>>

\* lines 186-190: the finally clause stamps the end time under the lock;
\* an early return then hands back the TaskResult built before it
RunFinally(th) ==
    LET t == job[th] IN
    /\ pc[th] \in {"run_finally", "run_finally_ret"}
    /\ tlock[t] = NoThread
    /\ \E n \in ClockReadings :
          /\ now' = n
          /\ end_time' = [end_time EXCEPT ![t] = n]
    /\ IF pc[th] = "run_finally"
       THEN goto(th, "run_result") /\ UNCHANGED <<job, ctx, ret, first_result>>
       ELSE ReturnFromRun(th, ret[th]) /\ RecordFirst(t, ret[th])
    /\ UNCHANGED <<status, progress, result_data, error, cancelled, paused,
                   tlock, work, elapsed_time, slept, guard_result, cfgVars, safe_point, regVars, statVars,
                   schedVars, poolVars, loopVars, submitLog, dispatchLog,
                   cancelledPending, calledAfter, raised, removed,
                   cbVars>>

\* lines 192-201: the TaskResult is built, handed to on_complete and
\* returned
RunResult(th) ==
    LET t == job[th] IN
    /\ pc[th] = "run_result"
    /\ ReturnFromRun(th, create_result(t))
    /\ RecordFirst(t, create_result(t))
    /\ on_complete_calls' = [on_complete_calls EXCEPT ![t] =
                                IF @ < MaxCalls THEN @ + 1 ELSE @]
    /\ Notify(th, t)
    /\ UNCHANGED <<taskVars, cfgVars, safe_point, regVars, statVars, now, schedVars, poolVars, loopVars,
                   submitLog, dispatchLog, cancelledPending, calledAfter,
                   raised, removed>>

\* ------------------------------------------ BaseTask.cancel/pause/resume
\* lines 275-283
TaskCancel(th) ==
    LET t == job[th] IN
    /\ pc[th] = "cancel"
    /\ tlock[t] = NoThread
    /\ IF status[t] = RUNNING
       THEN /\ cancelled' = [cancelled EXCEPT ![t] = TRUE]
            /\ ReturnFromTaskOp(th)
            /\ UNCHANGED tlock
       ELSE IF status[t] = PENDING
       THEN /\ tlock' = [tlock EXCEPT ![t] = th]
            /\ goto(th, "ss_from_cancel")
            /\ UNCHANGED <<cancelled, job, ctx, slock, tasks, removed>>
       ELSE /\ ReturnFromTaskOp(th)
            /\ UNCHANGED <<cancelled, tlock>>
    /\ UNCHANGED <<status, progress, result_data, error, end_time, paused,
                   work, elapsed_time, slept, guard_result, cfgVars, safe_point, regVars, statVars, ret, now,
                   is_running, running_tasks, completed_tasks, task_queues,
                   total_tasks, poolVars, loopVars, logVars,
                   cbVars>>

\* lines 285-291
TaskPause(th) ==
    LET t == job[th] IN
    /\ pc[th] = "pause"
    /\ tlock[t] = NoThread
    /\ IF status[t] = RUNNING
       THEN /\ paused' = [paused EXCEPT ![t] = TRUE]
            /\ tlock' = [tlock EXCEPT ![t] = th]
            /\ goto(th, "ss_from_pause")
            /\ UNCHANGED <<job, ctx, slock, tasks, removed>>
       ELSE /\ ReturnFromTaskOp(th)
            /\ UNCHANGED <<paused, tlock>>
    /\ UNCHANGED <<status, progress, result_data, error, end_time, cancelled,
                   work, elapsed_time, slept, guard_result, cfgVars, safe_point, regVars, statVars, ret, now,
                   is_running, running_tasks, completed_tasks, task_queues,
                   total_tasks, poolVars, loopVars, logVars,
                   cbVars>>

\* lines 293-299
TaskResume(th) ==
    LET t == job[th] IN
    /\ pc[th] = "resume"
    /\ tlock[t] = NoThread
    /\ IF status[t] = PAUSED
       THEN /\ paused' = [paused EXCEPT ![t] = FALSE]
            /\ tlock' = [tlock EXCEPT ![t] = th]
            /\ goto(th, "ss_from_resume")
            /\ UNCHANGED <<job, ctx, slock, tasks, removed>>
       ELSE /\ ReturnFromTaskOp(th)
            /\ UNCHANGED <<paused, tlock>>
    /\ UNCHANGED <<status, progress, result_data, error, end_time, cancelled,
                   work, elapsed_time, slept, guard_result, cfgVars, safe_point, regVars, statVars, ret, now,
                   is_running, running_tasks, completed_tasks, task_queues,
                   total_tasks, poolVars, loopVars, logVars,
                   cbVars>>

\* a thread calls task.run(), task.cancel(), task.pause() or task.resume()
\* on a task it holds a reference to
CallTask(th, t, op) ==
    /\ pc[th] = "idle"
    /\ pc' = [pc EXCEPT ![th] = op]
    /\ job' = [job EXCEPT ![th] = t]
    /\ ctx' = [ctx EXCEPT ![th] = "direct"]
    /\ calledAfter' = [calledAfter EXCEPT ![th] = first_result[t] # NoResult]
    /\ UNCHANGED <<taskVars, cfgVars, safe_point, regVars, statVars, ret, now, schedVars, poolVars, loopVars,
                   submitLog, dispatchLog, cancelledPending, first_result,
                   raised, removed,
                   cbVars>>
CallRun(th, t) == CallTask(th, t, "run")
CallCancel(th, t) == CallTask(th, t, "cancel")
CallPause(th, t) == CallTask(th, t, "pause")
CallResume(th, t) == CallTask(th, t, "resume")

\* --------------------------------------------------- initial conditions
\* BaseTask.__init__ (95-121) and TaskScheduler.__init__ (364-398)
InitCommon ==
    /\ status = [t \in Tasks |-> PENDING]
    /\ progress = [t \in Tasks |-> 0]
    /\ result_data = [t \in Tasks |-> EmptyData]
    /\ error = [t \in Tasks |-> NoError]
    /\ end_time = [t \in Tasks |-> NoTime]
    /\ cancelled = [t \in Tasks |-> FALSE]
    /\ paused = [t \in Tasks |-> FALSE]
    /\ tlock = [t \in Tasks |-> NoThread]
    /\ work = [t \in Tasks |-> "none"]
    /\ elapsed_time = [t \in Tasks |-> FZero]
    /\ slept = [t \in Tasks |-> 0]
    /\ guard_result = [t \in Tasks |-> EmptyData]
    /\ pc = [th \in Threads |-> "idle"]
    /\ job = [th \in Threads |-> NoTask]
    /\ ctx = [th \in Threads |-> "none"]
    /\ ret = [th \in Threads |-> NoResult]
    /\ now = 0
    /\ is_running = FALSE
    /\ slock = NoThread
    /\ tasks = {}
    /\ running_tasks = [t \in Tasks |-> 0]
    /\ completed_tasks = <<>>
    /\ task_queues = [p \in TaskPriority |-> <<>>]
    /\ total_tasks = 0
    /\ execq = <<>>
    /\ futTask = <<>>
    /\ futState = <<>>
    /\ shutdown = FALSE
    /\ wfut = [w \in Workers |-> 0]
    /\ dprio = [d \in Dispatchers |-> CRITICAL]
    /\ dtask = [d \in Dispatchers |-> NoTask]
    /\ ddep = [d \in Dispatchers |-> 1]
    /\ dfut = [d \in Dispatchers |-> 0]
    /\ cancel_todo = {}
    /\ scheduler_thread = NoThread
    /\ submitLog = <<>>
    /\ dispatchLog = <<>>
    /\ cancelledPending = {}
    /\ first_result = [t \in Tasks |-> NoResult]
    /\ calledAfter = [th \in Threads |-> FALSE]
    /\ raised = [th \in Threads |-> NoError]
    /\ removed = {}
    /\ on_complete_calls = [t \in Tasks |-> 0]
    /\ callback_locks = {}
    /\ safe_point = [t \in Tasks |-> "before"]
    /\ cls_instance = NoInstance
    /\ cls_lock = NoThread
    /\ constructed = 0
    /\ got = [th \in Threads |-> NoInstance]
    /\ stats = [completed_tasks |-> 0, failed_tasks |-> 0,
                cancelled_tasks |-> 0, average_execution_time |-> <<0, 1>>]
    /\ recorded = 0
    /\ completed_time = 0

\* one task, constructed with any timeout, used directly by caller threads
TaskInit ==
    /\ InitCommon
    /\ timeout \in [Tasks -> 0..MaxTimeout]
    /\ \A t \in Tasks \ {OneTask} : timeout[t] = 0
    /\ priority = [t \in Tasks |-> NORMAL]
    /\ dependencies = [t \in Tasks |-> <<>>]

TaskNext ==
    \/ \E th \in Callers :
         \/ CallRun(th, OneTask)
         \/ CallCancel(th, OneTask)
         \/ CallPause(th, OneTask)
         \/ CallResume(th, OneTask)
         \/ RunStart(th)
         \/ RunCheckCancelled(th)
         \/ RunGuard(th)
         \/ RunAfter(th)
         \/ SetStatus(th)
         \/ RunFinally(th)
         \/ RunResult(th)
         \/ TaskCancel(th)
         \/ TaskPause(th)
         \/ TaskResume(th)
    \/ WorkReturns(OneTask)
    \/ WorkRaises(OneTask)

TaskSpec == TaskInit /\ [][TaskNext]_vars

\* the same task, whose work calls wait_if_paused() once while it runs
PauseNext ==
    \/ TaskNext
    \/ WaitIfPaused(OneTask)
    \/ PausedWaitReturns(OneTask)

PauseSpec == TaskInit /\ [][PauseNext]_vars


\* the steps of a thread inside run(), cancel(), pause() or resume()
TaskThreadStep(th) ==
    \/ RunStart(th)
    \/ RunCheckCancelled(th)
    \/ RunGuard(th)
    \/ RunAfter(th)
    \/ SetStatus(th)
    \/ RunFinally(th)
    \/ RunResult(th)
    \/ TaskCancel(th)
    \/ TaskPause(th)
    \/ TaskResume(th)

\* the operating system runs every thread that can take a step
FairTaskSpec == TaskSpec /\ \A th \in Callers : WF_vars(TaskThreadStep(th))

\* ========================================================= TaskScheduler
\* ---------------------------------------------------- the collections
\* a priority queue holds (priority, timestamp, task id) tuples and hands
\* out the smallest: within one queue the priority is the same, the order
\* is by timestamp and then by task id.  An entry here is <<timestamp, id>>.
EntryBefore(a, b) == a[1] < b[1] \/ (a[1] = b[1] /\ a[2] <= b[2])

\* queue.PriorityQueue.put
QueuePut(q, e) ==
    LET k == Cardinality({i \in DOMAIN q : EntryBefore(q[i], e)})
    IN  SubSeq(q, 1, k) \o <<e>> \o SubSeq(q, k + 1, Len(q))

InQueue(t) == \E p \in TaskPriority : \E i \in DOMAIN task_queues[p] :
                  task_queues[p][i][2] = t

\* completed_tasks is a dict: a sequence of items in insertion order
CompletedIds == {completed_tasks[i].id : i \in DOMAIN completed_tasks}
InCompleted(t) == t \in CompletedIds
CompletedResult(t) ==
    completed_tasks[CHOOSE i \in DOMAIN completed_tasks :
                       completed_tasks[i].id = t].r

\* self.completed_tasks[task_id] = result
CompletedPut(d, t, r) ==
    IF \E i \in DOMAIN d : d[i].id = t
    THEN [i \in DOMAIN d |-> IF d[i].id = t THEN [id |-> t, r |-> r] ELSE d[i]]
    ELSE Append(d, [id |-> t, r |-> r])

\* sorted(items, key=end_time or datetime.min, reverse=True): stable
SortedRecentFirst(d) ==
    LET rank(i) == Cardinality({j \in DOMAIN d :
                       \/ d[j].r.end_time > d[i].r.end_time
                       \/ (d[j].r.end_time = d[i].r.end_time /\ j < i)}) + 1
    IN  [k \in DOMAIN d |-> d[CHOOSE i \in DOMAIN d : rank(i) = k]]

RunningIds == {t \in Tasks : running_tasks[t] # 0}

\* Future.cancel(): true, and the future cancelled, unless it has started
FutureCancels(f) == futState[f] \in {"pending", "cancelled"}

\* -------------------------------------------------------- caller calls
\* threading.Event stop_event: start() clears it and stop() sets it in the
\* lock section that writes is_running (410-411, 431-432)
stop_event == ~is_running

\* lines 402-419: a new loop thread is started, whether or not a loop
\* started earlier is still alive
Start(c) ==
    /\ pc[c] = "idle"
    /\ slock = NoThread
    /\ IF is_running
       THEN UNCHANGED <<is_running, pc, scheduler_thread>>
       ELSE \E d \in Dispatchers :
              /\ pc[d] = "idle"
              /\ \A e \in Dispatchers : e < d => pc[e] # "idle"
              /\ is_running' = TRUE
              /\ pc' = [pc EXCEPT ![d] = "d_loop"]
              /\ scheduler_thread' = d
    /\ UNCHANGED <<taskVars, cfgVars, safe_point, regVars, statVars, job, ctx, ret, now, slock, tasks,
                   running_tasks, completed_tasks, task_queues, total_tasks,
                   poolVars, dprio, dtask, ddep, dfut, cancel_todo, histVars>>

\* the dependencies add_task finds in neither tasks nor completed_tasks
MissingDependencies(t) ==
    {dependencies[t][i] : i \in DOMAIN dependencies[t]} \ (tasks \cup CompletedIds)

\* AddTask storing and enqueueing the task before the check of 462-464
AddTaskUnvalidated(c, t) ==
    /\ pc[c] = "idle"
    /\ slock = NoThread
    /\ tasks' = tasks \cup {t}
    /\ total_tasks' = total_tasks + 1
    /\ \E ts \in ClockReadings :
          /\ now' = ts
          /\ task_queues' = [task_queues EXCEPT ![priority[t]] =
                                QueuePut(@, <<ts, t>>)]
    /\ submitLog' = Append(submitLog, t)
    /\ raised' = [raised EXCEPT ![c] = IF MissingDependencies(t) # {}
                                       THEN ErrDependency ELSE NoError]
    /\ removed' = removed \ {t}
    /\ UNCHANGED <<taskVars, cfgVars, safe_point, regVars, statVars, threadVars, is_running, slock,
                   running_tasks, completed_tasks, poolVars, loopVars,
                   dispatchLog, cancelledPending, first_result, calledAfter,
                   cbVars>>

\* lines 450-477
AddTask(c, t) ==
    /\ pc[c] = "idle"
    /\ slock = NoThread
    /\ IF MissingDependencies(t) # {}
       THEN /\ raised' = [raised EXCEPT ![c] = ErrDependency]
            /\ UNCHANGED <<tasks, total_tasks, task_queues, now, submitLog,
                           removed>>
       ELSE /\ tasks' = tasks \cup {t}
            /\ total_tasks' = total_tasks + 1
            /\ \E ts \in ClockReadings :
                  /\ now' = ts
                  /\ task_queues' = [task_queues EXCEPT ![priority[t]] =
                                        QueuePut(@, <<ts, t>>)]
            /\ submitLog' = Append(submitLog, t)
            /\ raised' = [raised EXCEPT ![c] = NoError]
            /\ removed' = removed \ {t}
    /\ UNCHANGED <<taskVars, cfgVars, safe_point, regVars, statVars, threadVars, is_running, slock,
                   running_tasks, completed_tasks, poolVars, loopVars,
                   dispatchLog, cancelledPending, first_result, calledAfter,
                   cbVars>>

\* a caller submits a task, which may be one it has submitted before
Submit(c, t) == total_tasks < MaxSubmits /\ AddTask(c, t)

\* a caller submits the only task the scheduler is ever given
SubmitOnce(c, t) == total_tasks = 0 /\ AddTask(c, t)

\* a caller submits a task it has not submitted yet, before start()
SubmitBeforeStart(c, t) == ~is_running /\ t \notin tasks /\ AddTask(c, t)

\* lines 479-504, up to the call of task.cancel() under the lock
RemoveTask(c, t) ==
    /\ pc[c] = "idle"
    /\ slock = NoThread
    /\ IF running_tasks[t] # 0
       THEN /\ futState' = [futState EXCEPT ![running_tasks[t]] =
                              IF FutureCancels(running_tasks[t])
                              THEN "cancelled" ELSE @]
            /\ running_tasks' = [running_tasks EXCEPT ![t] = 0]
       ELSE UNCHANGED <<futState, running_tasks>>
    /\ IF t \in tasks
       THEN /\ slock' = c
            /\ pc' = [pc EXCEPT ![c] = "cancel"]
            /\ job' = [job EXCEPT ![c] = t]
            /\ ctx' = [ctx EXCEPT ![c] = "remove_task"]
       ELSE UNCHANGED <<slock, pc, job, ctx>>
    /\ UNCHANGED <<taskVars, cfgVars, safe_point, regVars, statVars, ret, now, is_running, tasks,
                   completed_tasks, task_queues, total_tasks, execq, futTask,
                   shutdown, wfut, loopVars, histVars>>

\* lines 530-554, up to the call of task.cancel() under the lock
CancelTask(c, t) ==
    /\ pc[c] = "idle"
    /\ slock = NoThread
    /\ IF running_tasks[t] # 0 /\ FutureCancels(running_tasks[t])
       THEN /\ futState' = [futState EXCEPT ![running_tasks[t]] = "cancelled"]
            /\ running_tasks' = [running_tasks EXCEPT ![t] = 0]
            /\ UNCHANGED <<slock, pc, job, ctx, cancelledPending>>
       ELSE /\ UNCHANGED <<futState, running_tasks>>
            /\ IF t \in tasks
               THEN /\ slock' = c
                    /\ pc' = [pc EXCEPT ![c] = "cancel"]
                    /\ job' = [job EXCEPT ![c] = t]
                    /\ ctx' = [ctx EXCEPT ![c] = "cancel_task"]
                    /\ cancelledPending' =
                          IF status[t] = PENDING /\ InQueue(t)
                          THEN cancelledPending \cup {t}
                          ELSE cancelledPending
               ELSE UNCHANGED <<slock, pc, job, ctx, cancelledPending>>
    /\ UNCHANGED <<taskVars, cfgVars, safe_point, regVars, statVars, ret, now, is_running, tasks,
                   completed_tasks, task_queues, total_tasks, execq, futTask,
                   shutdown, wfut, loopVars, submitLog, dispatchLog,
                   first_result, calledAfter, raised, removed,
                   cbVars>>

\* pause_task (556-563) and resume_task (565-572), up to the call of
\* task.pause() or task.resume() under the lock
DelegateTask(c, t, op, name) ==
    /\ pc[c] = "idle"
    /\ slock = NoThread
    /\ IF t \in tasks
       THEN /\ slock' = c
            /\ pc' = [pc EXCEPT ![c] = op]
            /\ job' = [job EXCEPT ![c] = t]
            /\ ctx' = [ctx EXCEPT ![c] = name]
       ELSE UNCHANGED <<slock, pc, job, ctx>>
    /\ UNCHANGED <<taskVars, cfgVars, safe_point, regVars, statVars, ret, now, is_running, tasks,
                   running_tasks, completed_tasks, task_queues, total_tasks,
                   poolVars, loopVars, histVars>>
PauseTask(c, t) == DelegateTask(c, t, "pause", "pause_task")
ResumeTask(c, t) == DelegateTask(c, t, "resume", "resume_task")

\* ----------------------------------------------------- wait_for_task
\* line 812: a thread calls wait_for_task(t) without a timeout
WaitBegin(c, t) ==
    /\ pc[c] = "idle"
    /\ pc' = [pc EXCEPT ![c] = "wait_result"]
    /\ job' = [job EXCEPT ![c] = t]
    /\ ctx' = [ctx EXCEPT ![c] = "wait_for_task"]
    /\ ret' = [ret EXCEPT ![c] = NoResult]
    /\ UNCHANGED <<taskVars, cfgVars, safe_point, regVars, statVars, now, schedVars, poolVars, loopVars,
                   histVars>>

\* lines 815-818: get_task_result reads completed_tasks without the lock
\* (528); a result found is returned
WaitResult(c) ==
    /\ pc[c] = "wait_result"
    /\ IF InCompleted(job[c])
       THEN /\ ret' = [ret EXCEPT ![c] = CompletedResult(job[c])]
            /\ ThreadIdle(c)
       ELSE /\ goto(c, "wait_task")
            /\ UNCHANGED <<job, ctx, ret>>
    /\ UNCHANGED <<taskVars, cfgVars, safe_point, regVars, statVars, now, schedVars, poolVars, loopVars,
                   histVars>>

\* lines 825-831: get_task reads tasks without the lock (516); None is
\* returned when the task is not there, else the wait sleeps and looks again
WaitTask(c) ==
    /\ pc[c] = "wait_task"
    /\ IF job[c] \notin tasks
       THEN /\ ret' = [ret EXCEPT ![c] = Absent]
            /\ ThreadIdle(c)
       ELSE /\ goto(c, "wait_result")
            /\ UNCHANGED <<job, ctx, ret>>
    /\ UNCHANGED <<taskVars, cfgVars, safe_point, regVars, statVars, now, schedVars, poolVars, loopVars,
                   histVars>>

\* ------------------------------------------------------------- stop()
\* lines 428-432: the lock section of stop()
StopBegin(c, wait) ==
    /\ pc[c] = "idle"
    /\ slock = NoThread
    /\ IF ~is_running
       THEN UNCHANGED <<is_running, pc, ctx>>
       ELSE /\ is_running' = FALSE
            /\ pc' = [pc EXCEPT ![c] = IF wait THEN "stop_join_loop_wait"
                                       ELSE "stop_join_loop_nowait"]
            /\ ctx' = [ctx EXCEPT ![c] = "stop"]
    /\ UNCHANGED <<taskVars, cfgVars, safe_point, regVars, statVars, job, ret, now, slock, tasks,
                   running_tasks, completed_tasks, task_queues, total_tasks,
                   poolVars, loopVars, histVars>>

\* the loop thread d cannot end within the five seconds of the join: the
\* stop event is cleared again, or the loop waits for the scheduler's lock
LoopOutlastsJoin(d) ==
    \/ ~stop_event
    \/ pc[d] = "d_cleanup" /\ slock # NoThread

\* lines 437-438: join(timeout=5) of the loop thread started last returns
\* when that thread has ended or the five seconds are over
StopJoinLoop(c) ==
    /\ pc[c] \in {"stop_join_loop_wait", "stop_join_loop_nowait"}
    /\ \/ scheduler_thread = NoThread
       \/ pc[scheduler_thread] = "idle"
       \/ LoopOutlastsJoin(scheduler_thread)
    /\ pc' = [pc EXCEPT ![c] = IF pc[c] = "stop_join_loop_wait"
                               THEN "stop_shutdown_wait" ELSE "stop_cancel"]
    /\ UNCHANGED <<taskVars, cfgVars, safe_point, regVars, statVars, job, ctx, ret, now, schedVars, poolVars,
                   loopVars, histVars>>

\* lines 702-703: _cancel_running_tasks takes the lock and copies the
\* handles
StopCancelBegin(c) ==
    /\ pc[c] = "stop_cancel"
    /\ slock = NoThread
    /\ slock' = c
    /\ cancel_todo' = RunningIds
    /\ pc' = [pc EXCEPT ![c] = "stop_cancel_loop"]
    /\ UNCHANGED <<taskVars, cfgVars, safe_point, regVars, statVars, job, ctx, ret, now, is_running, tasks,
                   running_tasks, completed_tasks, task_queues, total_tasks,
                   poolVars, dprio, dtask, ddep, dfut,
                   scheduler_thread, histVars>>

\* lines 703-711: one handle of the copy, future.cancel() and then the
\* task's cancel(); after the last one the handles are cleared and the lock
\* is released
StopCancelLoop(c) ==
    /\ pc[c] = "stop_cancel_loop"
    /\ IF cancel_todo = {}
       THEN /\ running_tasks' = [t \in Tasks |-> 0]
            /\ slock' = NoThread
            /\ pc' = [pc EXCEPT ![c] = "stop_shutdown_nowait"]
            /\ UNCHANGED <<cancel_todo, futState, job>>
       ELSE \E t \in cancel_todo :
              /\ cancel_todo' = cancel_todo \ {t}
              /\ futState' =
                    IF running_tasks[t] # 0 /\ FutureCancels(running_tasks[t])
                    THEN [futState EXCEPT ![running_tasks[t]] = "cancelled"]
                    ELSE futState
              /\ IF t \in tasks
                 THEN /\ pc' = [pc EXCEPT ![c] = "cancel"]
                      /\ job' = [job EXCEPT ![c] = t]
                 ELSE UNCHANGED <<pc, job>>
              /\ UNCHANGED <<running_tasks, slock>>
    /\ UNCHANGED <<taskVars, cfgVars, safe_point, regVars, statVars, ctx, ret, now, is_running, tasks,
                   completed_tasks, task_queues, total_tasks, execq, futTask,
                   shutdown, wfut, dprio, dtask, ddep, dfut,
                   scheduler_thread, histVars>>

\* line 445: executor.shutdown refuses later submissions; with wait it
\* then joins the pool's threads
StopShutdown(c) ==
    /\ pc[c] \in {"stop_shutdown_wait", "stop_shutdown_nowait"}
    /\ shutdown' = TRUE
    /\ IF pc[c] = "stop_shutdown_wait"
       THEN goto(c, "stop_join") /\ UNCHANGED <<job, ctx>>
       ELSE ThreadIdle(c)
    /\ UNCHANGED <<taskVars, cfgVars, safe_point, regVars, statVars, ret, now, schedVars, execq, futTask,
                   futState, wfut, loopVars, histVars>>

\* the join of executor.shutdown(wait=True) ends when the work queue is
\* drained and every worker has left its work item
StopJoin(c) ==
    /\ pc[c] = "stop_join"
    /\ execq = <<>>
    /\ \A w \in Workers : pc[w] = "idle"
    /\ ThreadIdle(c)
    /\ UNCHANGED <<taskVars, cfgVars, safe_point, regVars, statVars, ret, now, schedVars, poolVars,
                   loopVars, histVars>>

\* the steps of a thread inside stop()
StopStep(c) ==
    \/ StopJoinLoop(c)
    \/ StopCancelBegin(c)
    \/ StopCancelLoop(c)
    \/ StopShutdown(c)
    \/ StopJoin(c)

\* ------------------------------------------------------ the dispatch loop
\* line 578: the while test of a loop thread; the thread ends when the stop
\* event is set, else it starts a cycle with the CRITICAL queue
DLoop(d) ==
    /\ pc[d] = "d_loop"
    /\ IF stop_event
       THEN /\ pc' = [pc EXCEPT ![d] = "idle"]
            /\ UNCHANGED dprio
       ELSE /\ pc' = [pc EXCEPT ![d] = "d_check"]
            /\ dprio' = [dprio EXCEPT ![d] = CRITICAL]
    /\ UNCHANGED <<taskVars, cfgVars, safe_point, regVars, statVars, job, ctx, ret, now, schedVars, poolVars,
                   dtask, ddep, dfut, cancel_todo, scheduler_thread,
                   histVars>>

\* the for loop of 581-587 goes on to the next priority unless the stop
\* event is set (584-585), and after LOW to _cleanup_completed_tasks
NextQueue(d) ==
    IF dprio[d] > LOW /\ ~stop_event
    THEN /\ dprio' = [dprio EXCEPT ![d] = @ - 1]
         /\ pc' = [pc EXCEPT ![d] = "d_check"]
    ELSE /\ dprio' = dprio
         /\ pc' = [pc EXCEPT ![d] = "d_cleanup"]

\* the test of line 605
HasSlot == Cardinality(RunningIds) < MaxWorkers

\* lines 605-612: the loop test, the pop and the lookup in tasks
DCheck(d) ==
    /\ pc[d] = "d_check"
    /\ IF task_queues[dprio[d]] # <<>> /\ HasSlot
       THEN LET t == Head(task_queues[dprio[d]])[2] IN
            /\ task_queues' = [task_queues EXCEPT ![dprio[d]] = Tail(@)]
            /\ IF t \notin tasks
               THEN UNCHANGED <<pc, dtask, ddep>>
               ELSE /\ dtask' = [dtask EXCEPT ![d] = t]
                    /\ ddep' = [ddep EXCEPT ![d] = 1]
                    /\ pc' = [pc EXCEPT ![d] =
                                IF dependencies[t] = <<>> THEN "d_submit"
                                ELSE "d_deps"]
            /\ UNCHANGED dprio
       ELSE /\ NextQueue(d)
            /\ UNCHANGED <<task_queues, dtask, ddep>>
    /\ UNCHANGED <<taskVars, cfgVars, safe_point, regVars, statVars, job, ctx, ret, now, is_running, slock,
                   tasks, running_tasks, completed_tasks, total_tasks,
                   poolVars, dfut, cancel_todo, scheduler_thread,
                   histVars>>

\* the dependency just checked is satisfied: on to the next one, or to the
\* submission when it was the last
DepPassed(d) ==
    /\ ddep' = [ddep EXCEPT ![d] = @ + 1]
    /\ pc' = [pc EXCEPT ![d] =
                IF ddep[d] = Len(dependencies[dtask[d]]) THEN "d_submit"
                ELSE "d_deps"]
    /\ UNCHANGED <<task_queues, now, dprio, dtask>>

\* lines 615-618: a dependency is not satisfied, the entry goes back on the
\* queue with a new timestamp and the queue is left for this cycle
DepFailed(d) ==
    /\ \E ts \in ClockReadings :
          /\ now' = ts
          /\ task_queues' = [task_queues EXCEPT ![dprio[d]] =
                                QueuePut(@, <<ts, dtask[d]>>)]
    /\ NextQueue(d)
    /\ dtask' = [dtask EXCEPT ![d] = NoTask]
    /\ ddep' = [ddep EXCEPT ![d] = 1]

\* lines 633-634 and 638-639: is the dependency in tasks, else is it in
\* completed_tasks
DDeps(d) ==
    LET dep == dependencies[dtask[d]][ddep[d]] IN
    /\ pc[d] = "d_deps"
    /\ IF dep \in tasks
       THEN /\ pc' = [pc EXCEPT ![d] = "d_dep_status"]
            /\ UNCHANGED <<task_queues, now, dprio, dtask, ddep>>
       ELSE IF ~InCompleted(dep) THEN DepFailed(d) ELSE DepPassed(d)
    /\ UNCHANGED <<taskVars, cfgVars, safe_point, regVars, statVars, job, ctx, ret, is_running, slock, tasks,
                   running_tasks, completed_tasks, total_tasks, poolVars,
                   dfut, cancel_todo, scheduler_thread,
                   histVars>>

\* lines 635-637: the dependency's task is looked up again and its status
\* read; a task gone from tasks in between is a KeyError, which line 628
\* logs before the while loop goes on
DDepStatus(d) ==
    LET dep == dependencies[dtask[d]][ddep[d]] IN
    /\ pc[d] = "d_dep_status"
    /\ IF dep \notin tasks
       THEN /\ pc' = [pc EXCEPT ![d] = "d_check"]
            /\ dtask' = [dtask EXCEPT ![d] = NoTask]
            /\ ddep' = [ddep EXCEPT ![d] = 1]
            /\ UNCHANGED <<task_queues, now, dprio>>
       ELSE IF status[dep] # COMPLETED THEN DepFailed(d) ELSE DepPassed(d)
    /\ UNCHANGED <<taskVars, cfgVars, safe_point, regVars, statVars, job, ctx, ret, is_running, slock, tasks,
                   running_tasks, completed_tasks, total_tasks, poolVars,
                   dfut, cancel_todo, scheduler_thread,
                   histVars>>

\* line 621: executor.submit creates the future and queues the work item;
\* after executor.shutdown it raises RuntimeError instead, which line 628
\* logs before the while loop goes on, the popped entry being lost
DSubmit(d) ==
    /\ pc[d] = "d_submit"
    /\ IF shutdown
       THEN /\ dtask' = [dtask EXCEPT ![d] = NoTask]
            /\ pc' = [pc EXCEPT ![d] = "d_check"]
            /\ UNCHANGED <<futTask, futState, execq, dfut, dispatchLog>>
       ELSE /\ futTask' = Append(futTask, dtask[d])
            /\ futState' = Append(futState, "pending")
            /\ execq' = Append(execq, Len(futTask) + 1)
            /\ dfut' = [dfut EXCEPT ![d] = Len(futTask) + 1]
            /\ dispatchLog' = Append(dispatchLog, dtask[d])
            /\ pc' = [pc EXCEPT ![d] = "d_record"]
            /\ UNCHANGED dtask
    /\ UNCHANGED <<taskVars, cfgVars, safe_point, regVars, statVars, job, ctx, ret, now, schedVars, shutdown,
                   wfut, dprio, ddep, cancel_todo, scheduler_thread, submitLog,
                   cancelledPending, first_result, calledAfter, raised,
                   removed,
                   cbVars>>

\* line 622: the handle is recorded, without the scheduler's lock
DRecord(d) ==
    /\ pc[d] = "d_record"
    /\ running_tasks' = [running_tasks EXCEPT ![dtask[d]] = dfut[d]]
    /\ dtask' = [dtask EXCEPT ![d] = NoTask]
    /\ dfut' = [dfut EXCEPT ![d] = 0]
    /\ pc' = [pc EXCEPT ![d] = "d_check"]
    /\ UNCHANGED <<taskVars, cfgVars, safe_point, regVars, statVars, job, ctx, ret, now, is_running, slock,
                   tasks, completed_tasks, task_queues, total_tasks, poolVars,
                   dprio, ddep, cancel_todo, scheduler_thread, histVars>>

\* lines 684-698, then the sleep of 593 and back to the while test
DCleanup(d) ==
    /\ pc[d] = "d_cleanup"
    /\ slock = NoThread
    /\ completed_tasks' =
          IF Len(completed_tasks) > MaxCompleted
          THEN SubSeq(SortedRecentFirst(completed_tasks), 1, MaxCompleted)
          ELSE completed_tasks
    /\ pc' = [pc EXCEPT ![d] = "d_loop"]
    /\ UNCHANGED <<taskVars, cfgVars, safe_point, regVars, statVars, job, ctx, ret, now, is_running, slock,
                   tasks, running_tasks, task_queues, total_tasks, poolVars,
                   loopVars, histVars>>

\* ------------------------------------------------------- the worker pool
\* ThreadPoolExecutor: an idle worker takes the oldest work item; a
\* cancelled future's item is dropped, else _execute_task starts (643-646)
WorkerTake(w) ==
    /\ pc[w] = "idle"
    /\ execq # <<>>
    /\ execq' = Tail(execq)
    /\ IF futState[Head(execq)] = "cancelled"
       THEN UNCHANGED <<futState, wfut, pc, job, ctx>>
       ELSE /\ futState' = [futState EXCEPT ![Head(execq)] = "started"]
            /\ wfut' = [wfut EXCEPT ![w] = Head(execq)]
            /\ pc' = [pc EXCEPT ![w] = "run"]
            /\ job' = [job EXCEPT ![w] = futTask[Head(execq)]]
            /\ ctx' = [ctx EXCEPT ![w] = "worker"]
    /\ UNCHANGED <<taskVars, cfgVars, safe_point, regVars, statVars, ret, now, schedVars, futTask, shutdown,
                   loopVars, histVars>>

\* line 646 when the task's run() raises, as a subclass that overrides
\* run() may: the except branch of 671-677 builds a FAILED result from the
\* exception, and neither tasks nor completed_tasks is written
RunRaises(w) ==
    /\ pc[w] = "run"
    /\ ctx[w] = "worker"
    /\ ret' = [ret EXCEPT ![w] = [NoResult EXCEPT !.status = FAILED,
                                                  !.error = ErrRun]]
    /\ goto(w, "exec_finally")
    /\ UNCHANGED <<taskVars, cfgVars, safe_point, regVars, statVars, job, ctx, now, schedVars, poolVars,
                   loopVars, histVars>>

\* line 646 when the task's run() is the one of a subclass that overrides
\* it: _execute_task gets whatever terminal TaskResult that run() returns
RunReturnsAny(w) ==
    /\ pc[w] = "run"
    /\ ctx[w] = "worker"
    /\ \E s \in Terminal : ret' = [ret EXCEPT ![w] = [NoResult EXCEPT !.status = s]]
    /\ goto(w, "exec_record")
    /\ UNCHANGED <<taskVars, cfgVars, safe_point, regVars, statVars, job, ctx,
                   now, schedVars, poolVars, loopVars, histVars>>

\* fractions <<numerator, denominator>> in lowest terms, for the average
RECURSIVE Gcd(_, _)
Gcd(a, b) == IF b = 0 THEN a ELSE Gcd(b, a % b)
Fraction(a, b) == IF a = 0 THEN <<0, 1>> ELSE <<a \div Gcd(a, b), b \div Gcd(a, b)>>

\* result.execution_time, in whole seconds
ExecTimes == 0..MaxExecTime

\* lines 655-667: the counter of the result's status, if it has one, and
\* the running average, updated whenever the completed counter is positive
UpdateStats(st, result_status, execution_time) ==
    LET counted ==
            IF result_status = COMPLETED
            THEN [st EXCEPT !.completed_tasks = @ + 1]
            ELSE IF result_status = FAILED
            THEN [st EXCEPT !.failed_tasks = @ + 1]
            ELSE IF result_status = CANCELLED
            THEN [st EXCEPT !.cancelled_tasks = @ + 1]
            ELSE st
        n == counted.completed_tasks
        avg == st.average_execution_time
    IN  IF n > 0
        THEN [counted EXCEPT !.average_execution_time =
                 Fraction(avg[1] * (n - 1) + execution_time * avg[2],
                          avg[2] * n)]
        ELSE counted

\* lines 648-667: the task moves from tasks to completed_tasks and the
\* statistics are updated with the result's status and execution time
ExecRecord(w) ==
    /\ pc[w] = "exec_record"
    /\ slock = NoThread
    /\ tasks' = tasks \ {job[w]}
    /\ completed_tasks' = CompletedPut(completed_tasks, job[w], ret[w])
    /\ \E x \in ExecTimes :
          /\ stats' = UpdateStats(stats, ret[w].status, x)
          /\ completed_time' = IF ret[w].status = COMPLETED
                                THEN completed_time + x ELSE completed_time
    /\ recorded' = recorded + 1
    /\ pc' = [pc EXCEPT ![w] = "exec_finally"]
    /\ UNCHANGED <<taskVars, cfgVars, safe_point, regVars, job, ctx, ret, now,
                   is_running, slock, running_tasks, task_queues, total_tasks,
                   poolVars, loopVars, histVars>>

\* lines 678-682: the handle is dropped, and _execute_task returns: the
\* future is done, with run()'s result or with the FAILED result of the
\* except branch
ExecFinally(w) ==
    /\ pc[w] = "exec_finally"
    /\ slock = NoThread
    /\ running_tasks' = [running_tasks EXCEPT ![job[w]] = 0]
    /\ futState' = [futState EXCEPT ![wfut[w]] =
                       IF ret[w].error = ErrRun THEN "failed" ELSE "finished"]
    /\ wfut' = [wfut EXCEPT ![w] = 0]
    /\ ThreadIdle(w)
    /\ ret' = [ret EXCEPT ![w] = NoResult]
    /\ UNCHANGED <<taskVars, cfgVars, safe_point, regVars, statVars, now, is_running, slock, tasks,
                   completed_tasks, task_queues, total_tasks, execq, futTask,
                   shutdown, loopVars, histVars>>

\* ------------------------------------------------------- specification
\* The scheduler with two tasks of the default priority (line 80), the
\* second depending on the first or not, and one thread calling it.
SchedTasks == 1..(NTasks - 1)
SchedCallers == {1}
PriorityChoices(t) == {NORMAL}
DependencyChoices(t) == IF t = 2 THEN {<<>>, <<1>>} ELSE {<<>>}

Init ==
    /\ InitCommon
    /\ timeout = [t \in Tasks |-> 0]
    /\ priority \in [Tasks -> TaskPriority]
    /\ \A t \in Tasks : priority[t] \in PriorityChoices(t)
    /\ dependencies \in [Tasks -> {<<>>, <<1>>}]
    /\ \A t \in Tasks : dependencies[t] \in DependencyChoices(t)

\* the steps of a thread inside a scheduler call, a worker or the loop
SchedThreadStep(th) ==
    \/ RunStart(th)
    \/ RunCheckCancelled(th)
    \/ RunGuard(th)
    \/ RunAfter(th)
    \/ SetStatus(th)
    \/ RunFinally(th)
    \/ RunResult(th)
    \/ TaskCancel(th)
    \/ TaskPause(th)
    \/ TaskResume(th)
    \/ ExecRecord(th)
    \/ ExecFinally(th)

DispatcherStep(d) ==
    \/ DLoop(d)
    \/ DCheck(d)
    \/ DDeps(d)
    \/ DDepStatus(d)
    \/ DSubmit(d)
    \/ DRecord(d)
    \/ DCleanup(d)

Next ==
    \/ \E c \in SchedCallers :
         \/ Start(c)
         \/ \E t \in SchedTasks :
              \/ Submit(c, t)
              \/ RemoveTask(c, t)
              \/ CancelTask(c, t)
              \/ PauseTask(c, t)
              \/ ResumeTask(c, t)
    \/ \E w \in Workers : WorkerTake(w)
    \/ \E th \in SchedCallers \cup Workers : SchedThreadStep(th)
    \/ \E d \in Dispatchers : DispatcherStep(d)
    \/ \E t \in SchedTasks : WorkReturns(t) \/ WorkRaises(t)

Spec == Init /\ [][Next]_vars

\* the operating system runs every thread that can take a step
FairSpec ==
    /\ Spec
    /\ \A th \in SchedCallers \cup Workers : WF_vars(SchedThreadStep(th))
    /\ \A d \in Dispatchers : WF_vars(DispatcherStep(d))

\* The scheduler with a pool of MaxWorkers and tasks of different
\* priorities, no dependencies, all submitted before start() and then left
\* to the dispatch loop and the workers.
PriorityOf(t) == IF t = 1 THEN LOW ELSE IF t = 2 THEN CRITICAL
                 ELSE IF t = 3 THEN NORMAL ELSE HIGH

PrioInit ==
    /\ InitCommon
    /\ timeout = [t \in Tasks |-> 0]
    /\ priority = [t \in Tasks |-> PriorityOf(t)]
    /\ dependencies = [t \in Tasks |-> <<>>]

PrioNext ==
    \/ \E c \in SchedCallers :
         \/ Start(c)
         \/ \E t \in Tasks : SubmitBeforeStart(c, t)
    \/ \E w \in Workers :
         \/ WorkerTake(w)
         \/ RunStart(w)
         \/ RunCheckCancelled(w)
         \/ RunGuard(w)
         \/ RunAfter(w)
         \/ SetStatus(w)
         \/ RunFinally(w)
         \/ RunResult(w)
         \/ ExecRecord(w)
         \/ ExecFinally(w)
    \/ \E d \in Dispatchers :
         \/ DLoop(d)
         \/ DCheck(d)
         \/ DSubmit(d)
         \/ DRecord(d)
         \/ DCleanup(d)
    \/ \E t \in Tasks : WorkReturns(t) \/ WorkRaises(t)

PrioSpec == PrioInit /\ [][PrioNext]_vars

\* The same scheduler with tasks whose run() may raise.
RaiseNext ==
    \/ PrioNext
    \/ \E w \in Workers : RunRaises(w)

RaiseSpec == PrioInit /\ [][RaiseNext]_vars

\* The same scheduler with a thread that submits tasks, starts the
\* scheduler and waits for a task it has submitted.
WaitNext ==
    \/ PrioNext
    \/ \E c \in SchedCallers :
         \/ \E t \in Tasks : is_running /\ t \in tasks /\ WaitBegin(c, t)
         \/ WaitResult(c)
         \/ WaitTask(c)

WaitSpec == PrioInit /\ [][WaitNext]_vars

\* The scheduler's life cycle: NCallers threads start and stop the
\* scheduler and submit one task without dependencies.
LifeInit ==
    /\ InitCommon
    /\ timeout = [t \in Tasks |-> 0]
    /\ priority = [t \in Tasks |-> NORMAL]
    /\ dependencies = [t \in Tasks |-> <<>>]

\* the steps of a pool worker whose task is neither paused nor resumed
WorkerStep(w) ==
    \/ WorkerTake(w)
    \/ RunStart(w)
    \/ RunCheckCancelled(w)
    \/ RunGuard(w)
    \/ RunAfter(w)
    \/ SetStatus(w)
    \/ RunFinally(w)
    \/ RunResult(w)
    \/ ExecRecord(w)
    \/ ExecFinally(w)

\* the steps of a loop thread whose tasks have no dependencies
LoopStep(d) ==
    \/ DLoop(d)
    \/ DCheck(d)
    \/ DSubmit(d)
    \/ DRecord(d)
    \/ DCleanup(d)

LifeNext ==
    \/ \E c \in Callers :
         \/ Start(c)
         \/ \E wait \in BOOLEAN : StopBegin(c, wait)
         \/ StopStep(c)
         \/ SubmitOnce(c, OneTask)
         \/ TaskCancel(c)
         \/ SetStatus(c)
    \/ \E w \in Workers : WorkerStep(w)
    \/ \E d \in Dispatchers : LoopStep(d)
    \/ WorkReturns(OneTask)

LifeSpec == LifeInit /\ [][LifeNext]_vars

\* the operating system runs every thread that can take a step, and the
\* five seconds of a join are over at some time
FairLifeSpec ==
    /\ LifeSpec
    /\ \A c \in Callers :
          /\ WF_vars(StopStep(c) \/ TaskCancel(c) \/ SetStatus(c))
          /\ SF_vars(StopJoinLoop(c))
    /\ \A w \in Workers : WF_vars(WorkerStep(w))
    /\ \A d \in Dispatchers : WF_vars(LoopStep(d))

\* The scheduler with one task, submitted once, whose work reports its
\* progress, and one thread that calls the scheduler's control methods.
CtlNext ==
    \/ \E c \in SchedCallers :
         \/ Start(c)
         \/ SubmitOnce(c, OneTask)
         \/ RemoveTask(c, OneTask)
         \/ CancelTask(c, OneTask)
         \/ PauseTask(c, OneTask)
         \/ ResumeTask(c, OneTask)
    \/ \E w \in Workers : WorkerTake(w)
    \/ \E th \in SchedCallers \cup Workers : SchedThreadStep(th)
    \/ \E d \in Dispatchers : LoopStep(d)
    \/ WorkProgress(OneTask)
    \/ WorkReturns(OneTask)
    \/ WorkRaises(OneTask)

CtlSpec == LifeInit /\ [][CtlNext]_vars

\* the steps of a thread inside run()
RunStep(th) ==
    \/ RunStart(th)
    \/ RunCheckCancelled(th)
    \/ RunGuard(th)
    \/ RunAfter(th)
    \/ SetStatus(th)
    \/ RunFinally(th)
    \/ RunResult(th)

\* The scheduler with one task, which a caller may submit more than once so
\* that its id is queued more than once, while another thread calls run()
\* on the task itself.
OnceNext ==
    \/ \E c \in SchedCallers : Start(c) \/ Submit(c, OneTask)
    \/ \E c \in Callers \ SchedCallers : CallRun(c, OneTask) \/ RunStep(c)
    \/ \E w \in Workers : WorkerStep(w)
    \/ \E d \in Dispatchers : LoopStep(d)
    \/ WorkReturns(OneTask)
    \/ WorkRaises(OneTask)

OnceSpec == LifeInit /\ [][OnceNext]_vars

\* ------------------------------------------------- GlobalTaskScheduler
\* any thread of the process may access the registry
Accessors == Callers \cup Workers

regRest == <<taskVars, cfgVars, safe_point, statVars, job, ctx, ret, now,
             schedVars, poolVars, loopVars, histVars>>

\* lines 769-772: a thread calls GlobalTaskScheduler.get_instance(), which
\* calls cls() and so __new__
GetInstance(th) ==
    /\ pc[th] = "idle"
    /\ goto(th, "new_test")
    /\ got' = [got EXCEPT ![th] = NoInstance]
    /\ UNCHANGED <<cls_instance, cls_lock, constructed, regRest>>

\* line 762: the test made without the lock
NewTest(th) ==
    /\ pc[th] = "new_test"
    /\ goto(th, IF cls_instance = NoInstance THEN "new_lock" ELSE "new_return")
    /\ UNCHANGED <<regVars, statVars, regRest>>

\* line 763: with cls._lock
NewLock(th) ==
    /\ pc[th] = "new_lock"
    /\ cls_lock = NoThread
    /\ cls_lock' = th
    /\ goto(th, "new_test_locked")
    /\ UNCHANGED <<cls_instance, constructed, got, regRest>>

\* the locked section without the test of line 764
NewTestLockedSkipped(th) ==
    /\ pc[th] = "new_test_locked"
    /\ goto(th, "new_construct")
    /\ UNCHANGED <<regVars, statVars, regRest>>

\* line 764: the test repeated under the lock; the lock is released when
\* the with block is left
NewTestLocked(th) ==
    /\ pc[th] = "new_test_locked"
    /\ IF cls_instance = NoInstance
       THEN goto(th, "new_construct") /\ UNCHANGED cls_lock
       ELSE goto(th, "new_return") /\ cls_lock' = NoThread
    /\ UNCHANGED <<cls_instance, constructed, got, regRest>>

\* line 765: cls._instance = TaskScheduler(), and the lock is released
NewConstruct(th) ==
    /\ pc[th] = "new_construct"
    /\ constructed < MaxInstances
    /\ constructed' = constructed + 1
    /\ cls_instance' = constructed + 1
    /\ cls_lock' = NoThread
    /\ goto(th, "new_return")
    /\ UNCHANGED <<got, regRest>>

\* line 766: return cls._instance
NewReturn(th) ==
    /\ pc[th] = "new_return"
    /\ got' = [got EXCEPT ![th] = cls_instance]
    /\ goto(th, "idle")
    /\ UNCHANGED <<cls_instance, cls_lock, constructed, regRest>>

RegistryNext ==
    \E th \in Accessors :
        \/ GetInstance(th)
        \/ NewTest(th)
        \/ NewLock(th)
        \/ NewTestLocked(th)
        \/ NewConstruct(th)
        \/ NewReturn(th)

RegistrySpec == LifeInit /\ [][RegistryNext]_vars

\* The scheduler of PrioSpec with tasks of any class: a task's run() may be
\* BaseTask.run or return a terminal result of its own.
StatsNext ==
    \/ PrioNext
    \/ \E w \in Workers : RunReturnsAny(w)

StatsSpec == PrioInit /\ [][StatsNext]_vars

\* ================================================================ claims
PollsPerSecond == 10

\* C1: a status of COMPLETED, FAILED, TIMEOUT or CANCELLED never changes
\* again, and no status is ever followed by PENDING, under every
\* interleaving of run(), cancel(), pause() and resume() on the task.
C1_StatusNeverReverts ==
    [][\A t \in Tasks :
         /\ status[t] \in Terminal => status'[t] = status[t]
         /\ status[t] # PENDING => status'[t] # PENDING]_vars

\* C1 witness: the task is terminal and two threads have had run() return a
\* terminal TaskResult, so one of them called run() on the finished task,
\* while a cancel() call on it is under way.
C1_Witness ==
    \E a, b, c \in Callers :
        /\ a # b
        /\ status[OneTask] \in Terminal
        /\ ret[a].status \in Terminal
        /\ ret[b].status \in Terminal
        /\ pc[c] = "cancel"

\* C2: once the guard has handed run() the payload of work that returned
\* before the timeout, run() returns a TaskResult with status COMPLETED,
\* progress 100 and that payload, unless the cancellation flag gets set.
C2_RunReturnsCompleted ==
    \A th \in Callers :
        (pc[th] = "run_after" /\ guard_result[OneTask] = Payload
            /\ ~cancelled[OneTask])
        ~> (\/ cancelled[OneTask]
            \/ /\ pc[th] = "idle"
               /\ ret[th].status = COMPLETED
               /\ ret[th].progress = 100
               /\ ret[th].data = Payload)

\* C3: a thread inside cancel_task, pause_task, resume_task or remove_task
\* gets out of the call: it becomes idle again, which releases the
\* scheduler's lock.
C3_ControlCallsReturn ==
    \A c \in SchedCallers :
        (ctx[c] \in {"cancel_task", "pause_task", "resume_task", "remove_task"})
        ~> (pc[c] = "idle")

\* C4: whenever the dispatch loop has just handed a task to the pool, every
\* dependency the task declares has status COMPLETED.
C4_DispatchedDepsCompleted ==
    \A d \in Dispatchers :
        pc[d] = "d_record" =>
            \A i \in DOMAIN dependencies[dtask[d]] :
                status[dependencies[dtask[d]][i]] = COMPLETED

\* C5: a task submitted once, on which cancel_task was called while it was
\* PENDING with its entry in the priority queue, is never handed to the pool.
C5_CancelledPendingNotDispatched ==
    \A t \in cancelledPending :
        Cardinality({i \in DOMAIN submitLog : submitLog[i] = t}) = 1
        => \A d \in Dispatchers : ~(pc[d] = "d_record" /\ dtask[d] = t)

\* C6: the tasks handed to the pool whose run() has not returned, waiting in
\* the pool or inside run() on a worker, are at most max_workers.
C6_InFlightAtMostMaxWorkers ==
    Cardinality({f \in DOMAIN futState : futState[f] = "pending"})
    + Cardinality({w \in Workers : ctx[w] = "worker" /\ pc[w] # "exec_record"
                                      /\ pc[w] # "exec_finally"})
    <= MaxWorkers

\* C7: no task id is in tasks and in completed_tasks at once.
C7_TasksCompletedDisjoint ==
    \A t \in Tasks : ~(t \in tasks /\ InCompleted(t))

\* C8: with pool size MaxWorkers = 1 and tasks of different priorities all
\* submitted before the loop starts, every task handed to the pool has a
\* lower priority than the ones handed over before it.
C8_DescendingPriority ==
    \A i, j \in DOMAIN dispatchLog :
        i < j => priority[dispatchLog[i]] > priority[dispatchLog[j]]

\* C9: two tasks of the same priority, each submitted once and each handed
\* to the pool once, are handed over in the order of their add_task calls.
C9_FifoWithinPriority ==
    \A a, b \in Tasks :
        LET once(log, t) == Cardinality({i \in DOMAIN log : log[i] = t}) = 1
            pos(log, t) == CHOOSE i \in DOMAIN log : log[i] = t
        IN  (/\ a # b
             /\ priority[a] = priority[b]
             /\ once(submitLog, a) /\ once(submitLog, b)
             /\ once(dispatchLog, a) /\ once(dispatchLog, b)
             /\ pos(submitLog, a) < pos(submitLog, b))
            => pos(dispatchLog, a) < pos(dispatchLog, b)

\* C10: when the guard gave up on work that was still running, with the
\* cancellation flag clear, it had slept at least T and less than T plus one
\* polling interval, and run() ends with status TIMEOUT.
C10_TimeoutWithinOnePoll ==
    \A t \in Tasks :
        (work[t] = "abandoned" /\ ~cancelled[t]) =>
            /\ PollsPerSecond * timeout[t] <= slept[t]
            /\ slept[t] < PollsPerSecond * timeout[t] + 1
            /\ (end_time[t] # NoTime => status[t] = TIMEOUT)

\* C11: once cancel() has found the task PENDING, so before any run() has
\* started it, the task's work is never invoked and the task's status
\* becomes CANCELLED.
C11_CancelledBeforeRun ==
    \A c \in Callers :
        /\ [](pc[c] = "ss_from_cancel" => work[job[c]] = "none")
        /\ (pc[c] = "ss_from_cancel") ~> (status[OneTask] = CANCELLED)

\* C12: a run() that finds the status other than PENDING returns without
\* changing a field of the task or invoking the work, and when it was
\* called after the run() that executed the task had returned, it returns
\* a TaskResult equal to the one that run() returned.
C12_SecondRunSameResult ==
    [][\A th \in Callers :
         (pc[th] = "run" /\ pc'[th] = "idle") =>
             /\ UNCHANGED <<status, progress, result_data, error, end_time,
                            cancelled, paused, work>>
             /\ calledAfter[th] => ret'[th] = first_result[job[th]]]_vars

\* C13: an add_task call that raises the missing-dependency error leaves
\* tasks, every priority queue and the submitted counter as they were, and
\* a call that stores a task found each of its dependencies in tasks or in
\* completed_tasks.
C13_MissingDependencyRejected ==
    [][/\ \A c \in SchedCallers :
             (raised'[c] = ErrDependency /\ raised[c] # ErrDependency)
             => UNCHANGED <<tasks, task_queues, total_tasks>>
       /\ total_tasks' # total_tasks
             => /\ MissingDependencies(submitLog'[Len(submitLog')]) = {}
                /\ \E c \in SchedCallers : raised'[c] = NoError]_vars

\* C13 witness: add_task has raised the error on a scheduler that has
\* accepted a task before.
C13_Witness ==
    \E c \in SchedCallers : raised[c] = ErrDependency /\ total_tasks > 0

\* C14: completed_tasks never holds more entries than the cap.
C14_CompletedWithinCap == Len(completed_tasks) <= MaxCompleted

\* C15: when eviction removes entries from completed_tasks, exactly cap
\* entries remain and no removed entry's task finished later than the task
\* of an entry that is kept.
C15_EvictsOldest ==
    [][Len(completed_tasks') < Len(completed_tasks) =>
          /\ Len(completed_tasks') = MaxCompleted
          /\ \A i \in DOMAIN completed_tasks :
                (\A k \in DOMAIN completed_tasks' :
                    completed_tasks'[k].id # completed_tasks[i].id)
                => \A k \in DOMAIN completed_tasks' :
                      end_time[completed_tasks[i].id]
                          <= end_time[completed_tasks'[k].id]]_vars

C17_StopReturns ==
    \A c \in Callers : (ctx[c] = "stop") ~> (pc[c] = "idle")

\* the loop threads that have been started and have not ended
ActiveLoops == {d \in Dispatchers : pc[d] # "idle"}

\* C18: under every interleaving of start() and stop() calls, at most one
\* dispatch loop is alive while the scheduler is running.
C18_AtMostOneLoop == is_running => Cardinality(ActiveLoops) <= 1


\* C19: once the worker whose task's run() raised has left _execute_task
\* with the FAILED result, the scheduler holds no in-flight handle for that
\* execution.
C19_HandleRemoved ==
    \A t \in Tasks :
        running_tasks[t] # 0 => futState[running_tasks[t]] # "failed"


\* C20: an id remove_task has returned True for, and that has not been
\* submitted again since, is neither in tasks nor in completed_tasks.
C20_RemovedStaysOut ==
    \A t \in removed : t \notin tasks /\ ~InCompleted(t)


\* C21: a wait_for_task without timeout returns None only when the id is
\* in neither tasks nor completed_tasks.
C21_AbsentOnlyIfGone ==
    [][\A c \in SchedCallers :
         (ret'[c] = Absent /\ ret[c] # Absent)
         => (job[c] \notin tasks /\ ~InCompleted(job[c]))]_vars


\* C22: an in-flight handle is the handle of a RUNNING or PAUSED task.
\* Checked in the states the claim is least strict about: those where the
\* handle's future is done, so that no worker is about to start the task
\* or to drop the handle.
C22_HandleOfRunningTask ==
    \A t \in Tasks :
        (running_tasks[t] # 0
           /\ futState[running_tasks[t]] \in {"finished", "failed"})
        => status[t] \in {RUNNING, PAUSED}


\* the entries of the four priority queues
QueuedCount ==
    Len(task_queues[LOW]) + Len(task_queues[NORMAL])
        + Len(task_queues[HIGH]) + Len(task_queues[CRITICAL])

\* no loop thread holds a popped task and no worker holds a work item
Quiescent ==
    /\ \A d \in Dispatchers :
          pc[d] \in {"idle", "d_loop", "d_check", "d_cleanup"}
    /\ \A w \in Workers : pc[w] = "idle"
    /\ execq = <<>>

\* C23: queue entries plus in-flight handles plus completed entries equal
\* the submitted counter minus the removals.  Checked in the states where
\* no task is on its way from one collection to the next.
C23_CountsAddUp ==
    Quiescent =>
        QueuedCount + Cardinality(RunningIds) + Len(completed_tasks)
            = total_tasks - Cardinality(removed)


\* thread th returns from a run() call that had moved its task out of
\* PENDING: run() returns at line 159 or 167 after the finally clause, or
\* at line 201
ExecutingRunReturns(th) ==
    pc[th] \in {"run_finally_ret", "run_result"} /\ pc'[th] = "idle"

\* C24: when a run() call that moved the task out of PENDING returns,
\* on_complete has been invoked exactly once for the task; a run() call
\* on a task that is not PENDING does not invoke it.
C24_OnCompleteOnce ==
    [][\A th \in Callers :
         /\ ExecutingRunReturns(th) => on_complete_calls'[job[th]] = 1
         /\ (pc[th] = "run" /\ pc'[th] = "idle")
               => UNCHANGED on_complete_calls]_vars

\* C25: the TaskResult returned by a run() call that moved the task out
\* of PENDING has a final status and a stamped end time.
C25_ResultStamped ==
    [][\A th \in Callers :
         ExecutingRunReturns(th)
         => (ret'[th].status \in Terminal /\ ret'[th].end_time # NoTime)]_vars


\* C26: no observer is invoked by a thread that holds the task's lock or
\* the scheduler's lock.
C26_CallbacksOutsideLocks == callback_locks \subseteq {"none"}

\* the progress observer has been invoked by the work, outside every lock, and
\* a thread that holds both locks waits in _set_status before its notification
C26_Witness ==
    /\ "none" \in callback_locks
    /\ progress[OneTask] = HalfWay
    /\ \E c \in SchedCallers :
          /\ pc[c] \in {"ss_from_cancel", "ss_from_pause"}
          /\ HeldLocks(c, OneTask) = {"task", "scheduler"}


\* C27: the work of a task does not return from wait_if_paused() while the
\* task is paused (pause() has set the flag and resume() has not cleared it).
C27_PausedWorkWaits ==
    [][\A t \in Tasks :
         (safe_point'[t] = "passed" /\ safe_point[t] # "passed")
         => ~paused[t]]_vars


\* C28: the work of a task (execute) is started at most once, by one thread,
\* also when run() is called from several threads or the task's id is taken
\* from the queues more than once.
StartsWork(th) == pc[th] = "run_check_cancelled" /\ pc'[th] = "run_guard"

C28_ExecuteOnce ==
    [][\A th \in Threads : StartsWork(th) => work[job[th]] = "none"]_vars

\* the work has been started, the task's id has been handed to the pool
\* twice, and a run() called on the task by another thread has returned
\* without running it
C28_Witness ==
    /\ work[OneTask] # "none"
    /\ Len(dispatchLog) = 2
    /\ \E c \in Callers \ SchedCallers :
          /\ pc[c] = "idle"
          /\ ret[c] # NoResult
          /\ first_result[OneTask] # ret[c]


\* C29: at most one TaskScheduler is ever constructed, and every access to
\* the registry returns the one that was constructed, whatever the
\* interleaving of the accessing threads.
AccessReturns(th) == pc[th] = "new_return" /\ pc'[th] = "idle"

C29_OneScheduler ==
    [][/\ constructed' <= 1
       /\ \A th \in Accessors :
            AccessReturns(th) => (constructed' = 1 /\ got'[th] = 1)]_vars

\* two threads found no instance in their first test; one has constructed
\* the scheduler and returned it, the other holds the lock before its
\* second test
C29_Witness ==
    \E a, b \in Accessors :
        /\ a # b
        /\ got[a] = 1
        /\ pc[a] = "idle"
        /\ pc[b] = "new_test_locked"
        /\ cls_lock = b
        /\ constructed = 1


\* C30: when the guard of a task with a timeout stops polling while the
\* cancellation flag is set and the work is still executing, it returns the
\* empty payload to run(), which then ends CANCELLED; it never raises the
\* timeout instead.
GuardStops(th) == pc[th] = "run_guard" /\ pc'[th] # "run_guard"

C30_CancelStopsGuard ==
    [][\A th \in Callers :
         (/\ GuardStops(th)
          /\ timeout[job[th]] > 0
          /\ cancelled[job[th]]
          /\ work[job[th]] = "alive")
         => (pc'[th] = "run_after" /\ guard_result'[job[th]] = EmptyData)]_vars


\* C31: when the cancellation flag is set at the moment the guarded call
\* ends, run() goes on to CANCELLED: it takes neither the TIMEOUT nor the
\* FAILED branch, which are taken only with the flag clear.
C31_CancelledWins ==
    [][\A th \in Callers :
         (GuardStops(th) /\ cancelled[job[th]])
         => pc'[th] \notin {"ss_timeout", "ss_failed"}]_vars


\* every loop thread is at the test of its while loop (or not started), no
\* worker is inside _execute_task and the pool holds no work item
BetweenCycles ==
    /\ \A d \in Dispatchers : pc[d] \in {"idle", "d_loop"}
    /\ \A w \in Workers : pc[w] = "idle"
    /\ execq = <<>>

\* C32: when no worker is executing a task and the dispatch loop is between
\* two cycles, the in-flight handle map is empty: every handle the loop
\* recorded has been removed by its worker.
C32_NoHandleLeft == BetweenCycles => RunningIds = {}


\* worker w leaves _execute_task
WorkerFinishes(w) == pc[w] = "exec_finally" /\ pc'[w] = "idle"

\* C33: when a worker leaves _execute_task for a task that remove_task has
\* not removed, the task's id is in completed_tasks and not in tasks,
\* whether run() returned or raised.
C33_MovedToCompleted ==
    [][\A w \in Workers :
         (WorkerFinishes(w) /\ job[w] \notin removed)
         => (job[w] \in CompletedIds /\ job[w] \notin tasks)]_vars


\* loop thread d leaves line 621 with the task it popped
LeavesSubmit(d) == pc[d] = "d_submit" /\ pc'[d] # "d_submit"

\* C34: a task the loop has popped while it is in tasks is dispatched to a
\* worker or put back on a queue; a failing cycle does not leave it PENDING
\* in tasks with neither a queue entry nor a work item.
C34_PoppedTaskKept ==
    [][\A d \in Dispatchers :
         (LeavesSubmit(d) /\ dtask[d] \in tasks /\ status[dtask[d]] = PENDING)
         => \/ Len(futTask') = Len(futTask) + 1
            \/ \E p \in TaskPriority : \E i \in DOMAIN task_queues'[p] :
                  task_queues'[p][i][2] = dtask[d]]_vars


\* every dependency of t is in the branch of run() that ends COMPLETED: a
\* thread has stored its payload and progress 100 (170-172) and is at the
\* call of _set_status(COMPLETED)
DepsEndCompleted(t) ==
    \A i \in DOMAIN dependencies[t] :
        \E th \in Threads :
            job[th] = dependencies[t][i] /\ pc[th] = "ss_completed"

Dispatched(t) == \E i \in DOMAIN dispatchLog : dispatchLog[i] = t

RecordsResult(w) == pc[w] = "exec_record" /\ pc'[w] = "exec_finally"

\* C36: the completed, failed and cancelled counters add up to the number
\* of results the workers have recorded into completed_tasks.
C36_CountersAddUp ==
    stats.completed_tasks + stats.failed_tasks + stats.cancelled_tasks
        = recorded


CancelActs(th) == pc[th] = "cancel" /\ pc'[th] # "cancel"

\* C38: cancel() on a RUNNING task sets the cancellation flag and leaves
\* the status RUNNING; on a task that is neither RUNNING nor PENDING it
\* changes neither the status nor the flag; and a cancel() that has found
\* the task PENDING gets its status to CANCELLED and returns.
C38_CancelEffect ==
    /\ [][\A th \in Callers :
            CancelActs(th)
            => LET t == job[th] IN
               /\ status[t] = RUNNING
                     => (cancelled'[t] /\ status'[t] = RUNNING)
               /\ status[t] \notin {RUNNING, PENDING}
                     => (status'[t] = status[t]
                           /\ cancelled'[t] = cancelled[t])]_vars
    /\ \A th \in Callers :
          (pc[th] = "ss_from_cancel")
          ~> (pc[th] = "idle" /\ status[OneTask] = CANCELLED)


\* C39: a task's pause flag is set exactly when its status is PAUSED.
C39_PauseFlagIsStatus ==
    \A t \in Tasks : paused[t] <=> status[t] = PAUSED

====
